---- MODULE Spec2Model ----
(***************************************************************************)
(* A model of the n8n storytelling MCP server: the transport adapter       *)
(* (CallToolRequestSchema handler), the tool registry (StorytellingTools)  *)
(* and the workflow client (N8NClient) with its status mapper.             *)
(*                                                                         *)
(* Conventions.                                                            *)
(*  - A JavaScript value whose truthiness or strict equality the code      *)
(*    tests is a tagged record: JsUndefined, JsNull, JsBool(b), JsStr(s),  *)
(*    JsFunction, JsObject.                                                *)
(*  - A property that may be absent (undefined) is an option: None or      *)
(*    Some(x).  An object under construction is a function from property   *)
(*    names to options; JSON.stringify drops the None properties.          *)
(*  - A message built by a template literal is the sequence of its parts.  *)
(*  - A string the code splits, lower-cases or searches is a sequence of   *)
(*    one-character strings.                                               *)
(*  - The engine's answer to each outbound HTTP call is an input of the    *)
(*    action that makes the call.                                          *)
(***************************************************************************)
EXTENDS Integers, Sequences, FiniteSets, TLC

VARIABLES
    jobs,       \* StorytellingTools.jobs: job key -> ProcessingStatus
    request,    \* the last CallTool request: [name, arguments]
    response,   \* what the handler did with it: [escaped, isError, payload]
    calls,      \* the outbound engine calls the last invocation made, in order
    answers,    \* what the engine answered to those calls, one answer per call
    fetched,    \* history: per job key, the last status fetched from the engine
                \*   by any tool, or the pending record start analysis wrote since
    polled      \* history: the same, counting only get_analysis_status fetches

vars == <<jobs, request, response, calls, answers, fetched, polled>>

-----------------------------------------------------------------------------
(* Options and JavaScript values *)

None == <<>>
Some(x) == <<x>>
IsSome(o) == Len(o) = 1
IsNone(o) == Len(o) = 0
Get(o) == o[1]

JsUndefined == [t |-> "undefined"]
JsNull == [t |-> "null"]
JsBool(b) == [t |-> "boolean", v |-> b]
JsStr(s) == [t |-> "string", v |-> s]
JsFunction == [t |-> "function"]
JsObject == [t |-> "object"]

\* ToBoolean, as `if (x)`, `!x`, `x && y` and `x || y` apply it.
Truthy(x) ==
    CASE x.t = "undefined" -> FALSE
      [] x.t = "null" -> FALSE
      [] x.t = "boolean" -> x.v
      [] x.t = "string" -> x.v # ""
      [] OTHER -> TRUE

\* x || d
OrElse(x, d) == IF Truthy(x) THEN x ELSE d

\* The names every object literal inherits from Object.prototype.
ObjectPrototypeNames ==
    {"constructor", "__proto__", "hasOwnProperty", "isPrototypeOf",
     "propertyIsEnumerable", "toLocaleString", "toString", "valueOf",
     "__defineGetter__", "__defineSetter__", "__lookupGetter__", "__lookupSetter__"}

\* table[key] on an object literal `table` of strings: an own property, else a
\* property inherited from Object.prototype, else undefined.
ObjectLiteralGet(table, key, inherited, protoKey) ==
    IF key \in DOMAIN table THEN JsStr(table[key])
    ELSE IF key = protoKey THEN JsObject
    ELSE IF key \in inherited THEN JsFunction
    ELSE JsUndefined

Min(a, b) == IF a <= b THEN a ELSE b
Last(s) == s[Len(s)]

\* JSON.stringify of an object: a property whose value is undefined is dropped.
JsonObject(o) == [k \in {n \in DOMAIN o : IsSome(o[n])} |-> Get(o[k])]

\* A JavaScript value as JSON.stringify writes it inside an object: undefined and
\* functions are dropped (None), every other value is kept.
JsonValue(x) == IF x.t \in {"undefined", "function"} THEN None ELSE Some(x)

-----------------------------------------------------------------------------
(* Errors *)

Err(name, message) == [name |-> name, message |-> message]

\* `${error}`: an Error's toString is "<name>: <message>".
ErrToString(e) == <<e.name, ": ">> \o e.message

\* throw new Error(`<prefix>${error}`)
Wrapped(prefix, e) == Err("Error", <<prefix>> \o ErrToString(e))

\* A property read on undefined.
TypeErrorReading(prop) ==
    Err("TypeError", <<"Cannot read properties of undefined (reading '", prop, "')">>)

Return(v) == [thrown |-> FALSE, value |-> v]
Throw(e) == [thrown |-> TRUE, error |-> e]

\* The engine's answers to an HTTP call: a failure (network error, non-2xx), or a
\* response whose body is an option (None: no usable body).
HttpFailure == [ok |-> FALSE, cause |-> Err("AxiosError", <<"Request failed with status code 500">>)]
HttpOk(body) == [ok |-> TRUE, body |-> body]

-----------------------------------------------------------------------------
(* N8NClient: the status mapper *)

mapN8NStatus_LaterFinished(finished, stoppedAt) ==
    IF Truthy(finished) THEN "completed"
    ELSE IF Truthy(stoppedAt) THEN "failed"
    ELSE "processing"

mapN8NStatus(finished, stoppedAt) ==
    IF Truthy(stoppedAt) THEN "failed"
    ELSE IF Truthy(finished) THEN "completed"
    ELSE "processing"

expectedNodes == 10

\* execution.data?.resultData?.runData: the node names, in key order.
RunDataOf(execution) ==
    IF IsNone(execution.data) THEN None ELSE Get(execution.data).runData

calculateProgress_Unclamped(execution) ==
    IF IsNone(RunDataOf(execution)) THEN 0
    ELSE (Len(Get(RunDataOf(execution))) * 100) \div expectedNodes

\* (totalNodes / expectedNodes) * 100 is taken here as totalNodes * 100 / expectedNodes,
\* which is a whole number because expectedNodes divides 100.
calculateProgress(execution) ==
    IF IsNone(RunDataOf(execution)) THEN 0
    ELSE LET totalNodes == Len(Get(RunDataOf(execution)))
         IN Min((totalNodes * 100) \div expectedNodes, 100)

stepMap ==
    [n \in {"Upload Interviews Webhook", "Process Input Files", "Transcribe with Whisper",
            "4P Story Analysis", "Update Google Spreadsheet", "Create Story Summary Doc",
            "Extract Soundbite Clips", "Create Final Story Video"} |->
        CASE n = "Upload Interviews Webhook" -> "Processing uploads..."
          [] n = "Process Input Files" -> "Analyzing files..."
          [] n = "Transcribe with Whisper" -> "Transcribing audio..."
          [] n = "4P Story Analysis" -> "Analyzing story structure..."
          [] n = "Update Google Spreadsheet" -> "Creating spreadsheet..."
          [] n = "Create Story Summary Doc" -> "Writing summary..."
          [] n = "Extract Soundbite Clips" -> "Extracting clips..."
          [] n = "Create Final Story Video" -> "Creating final video..."]

\* completedNodes[completedNodes.length - 1] is undefined for an empty runData, and
\* stepMap[undefined] reads the property named "undefined".
getCurrentStep(execution) ==
    LET runData == RunDataOf(execution) IN
    IF IsNone(runData) THEN JsStr("Starting...")
    ELSE LET completedNodes == Get(runData)
             lastNode == IF Len(completedNodes) = 0 THEN "undefined"
                         ELSE Last(completedNodes)
         IN OrElse(ObjectLiteralGet(stepMap, lastNode, ObjectPrototypeNames, "__proto__"),
                   JsStr("Processing..."))

\* execution.data?.resultData?.error?.message
ErrorMessageOf(execution) ==
    IF IsNone(execution.data) THEN JsUndefined ELSE Get(execution.data).errorMessage

getExecutionStatus_ErrorUnlessFinished(executionId, out) ==
    IF ~out.ok THEN Throw(Wrapped("Failed to get execution status: ", out.cause))
    ELSE IF IsNone(out.body)
         THEN Throw(Wrapped("Failed to get execution status: ", TypeErrorReading("finished")))
    ELSE LET execution == Get(out.body) IN
         Return([jobId |-> executionId,
                 status |-> mapN8NStatus(execution.finished, execution.stoppedAt),
                 progress |-> calculateProgress(execution),
                 currentStep |-> getCurrentStep(execution),
                 results |-> IF Truthy(execution.finished) /\ ~Truthy(execution.stoppedAt)
                             THEN execution.data ELSE None,
                 error |-> IF Truthy(execution.stoppedAt) /\ ~Truthy(execution.finished)
                           THEN ErrorMessageOf(execution) ELSE JsUndefined])

\* GET /api/v1/executions/{id}; every throw inside the try is wrapped.
getExecutionStatus(executionId, out) ==
    IF ~out.ok THEN Throw(Wrapped("Failed to get execution status: ", out.cause))
    ELSE IF IsNone(out.body)
         THEN Throw(Wrapped("Failed to get execution status: ", TypeErrorReading("finished")))
    ELSE LET execution == Get(out.body) IN
         Return([jobId |-> executionId,
                 status |-> mapN8NStatus(execution.finished, execution.stoppedAt),
                 progress |-> calculateProgress(execution),
                 currentStep |-> getCurrentStep(execution),
                 results |-> IF Truthy(execution.finished) /\ ~Truthy(execution.stoppedAt)
                             THEN execution.data ELSE None,
                 error |-> IF Truthy(execution.stoppedAt)
                           THEN ErrorMessageOf(execution) ELSE JsUndefined])

-----------------------------------------------------------------------------
(* StorytellingTools: shared helpers *)

ErrorClasses == {"Error", "TypeError", "AxiosError"}

\* error instanceof Error ? error.message : 'Unknown error'
CaughtMessage(e) == IF e.name \in ErrorClasses THEN e.message ELSE <<"Unknown error">>

\* A template-literal string, as its parts.
JsText(parts) == [t |-> "string", v |-> parts]

\* { success: false, error: `<prefix>${message}` }
Failure(prefix, e) ==
    [success |-> Some(FALSE), error |-> Some(JsText(<<prefix>> \o CaughtMessage(e)))]

\* try { ... } catch (error) { return { success: false, error: `<prefix>...` } }
\* around a body that ended as body.outcome, with the side effects it had by then.
Caught(prefix, body) ==
    [result |-> IF body.outcome.thrown
                THEN Failure(prefix, body.outcome.error)
                ELSE body.outcome.value,
     jobs |-> body.jobs,
     calls |-> body.calls]

\* Map.set
MapSet(m, k, v) == [x \in (DOMAIN m) \cup {k} |-> IF x = k THEN v ELSE m[x]]

\* const { jobId } = args throws when args is undefined.
DestructureError(prop) ==
    Err("TypeError", <<"Cannot destructure property '", prop, "' of 'args' as it is undefined.">>)

GetExecutionCall(id) == [op |-> "GET /api/v1/executions/{id}", id |-> id]

\* x?.length || 0
CountOf(list) == IF IsNone(list) THEN 0 ELSE Len(Get(list))

generateResultSummary(analysis) ==
    <<"Analysis completed with ", ToString(CountOf(analysis.soundbites)),
      " soundbites identified across ", ToString(CountOf(analysis.people)),
      " key characters. The story explores themes of transformation through ",
      ToString(CountOf(analysis.purpose)), " core purposes across ",
      ToString(CountOf(analysis.places)), " significant locations.">>

-----------------------------------------------------------------------------
(* StorytellingTools.executeGetStatus *)

\* The result for a completed status with results.
CompletedResult(status, results) ==
    IF IsNone(results.analysis)
    THEN Throw(TypeErrorReading("soundbites"))
    ELSE Return(
        [success |-> Some(TRUE),
         status |-> Some(status.status),
         progress |-> Some(status.progress),
         currentStep |-> JsonValue(status.currentStep),
         results |-> Some(JsonObject(
             [analysis |-> Some(JsonObject(Get(results.analysis))),
              deliverables |-> results.deliverables,
              summary |-> Some(JsText(generateResultSummary(Get(results.analysis))))]))])

StatusResult(status) ==
    IF status.status = "completed" /\ IsSome(status.results)
    THEN CompletedResult(status, Get(status.results))
    ELSE Return([success |-> Some(TRUE),
                 status |-> Some(status.status),
                 progress |-> Some(status.progress),
                 currentStep |-> JsonValue(status.currentStep),
                 error |-> JsonValue(status.error)])

\* After the fetch `got`: jobs.set runs before the result is shaped, so a throw
\* while shaping leaves the new entry in the map.
GetStatusFetched_NoCache(jobId, got, jobsNow) ==
    IF got.thrown
    THEN [outcome |-> Throw(got.error), jobs |-> jobsNow, calls |-> <<GetExecutionCall(jobId)>>]
    ELSE [outcome |-> StatusResult(got.value),
          jobs |-> jobsNow,
          calls |-> <<GetExecutionCall(jobId)>>]

GetStatusFetched(jobId, got, jobsNow) ==
    IF got.thrown
    THEN [outcome |-> Throw(got.error), jobs |-> jobsNow, calls |-> <<GetExecutionCall(jobId)>>]
    ELSE [outcome |-> StatusResult(got.value),
          jobs |-> MapSet(jobsNow, jobId, got.value),
          calls |-> <<GetExecutionCall(jobId)>>]

\* The try block: [outcome, jobs, calls].
GetStatusBody(args, out, jobsNow) ==
    IF IsNone(args)
    THEN [outcome |-> Throw(DestructureError("jobId")), jobs |-> jobsNow, calls |-> <<>>]
    ELSE GetStatusFetched(Get(args).jobId, getExecutionStatus(Get(args).jobId, out), jobsNow)

executeGetStatus(args, out, jobsNow) ==
    Caught("Failed to get status: ", GetStatusBody(args, out, jobsNow))

-----------------------------------------------------------------------------
(* StorytellingTools.executeGetInsights *)

\* String.prototype.includes: needle occurs as a contiguous run of text.
Includes(text, needle) ==
    \E i \in 1..(Len(text) - Len(needle) + 1) :
        SubSeq(text, i, i + Len(needle) - 1) = needle

TransformationNeedle ==
    <<"t", "r", "a", "n", "s", "f", "o", "r", "m", "a", "t", "i", "o", "n">>

IsTransformationMoment(p) == Includes(p.significance, TransformationNeedle)
IsEmotionalHighpoint_AtLeast(s) == s.emotionalImpact >= 7
IsEmotionalHighpoint(s) == s.emotionalImpact > 7
CharacterArc(person) == [character |-> person.name, transformation |-> person.significance]

\* analysis.plot?.filter(...), analysis.people?.map(...), analysis.soundbites?.filter(...)
extractTransformationInsights(analysis) ==
    [transformationMoments |->
        IF IsNone(analysis.plot) THEN None
        ELSE Some(SelectSeq(Get(analysis.plot), IsTransformationMoment)),
     keyCharacterArcs |->
        IF IsNone(analysis.people) THEN None
        ELSE Some([i \in 1..Len(Get(analysis.people)) |-> CharacterArc(Get(analysis.people)[i])]),
     emotionalHighpoints |->
        IF IsNone(analysis.soundbites) THEN None
        ELSE Some(SelectSeq(Get(analysis.soundbites), IsEmotionalHighpoint))]

SliceNames == {"people", "places", "purpose", "plot", "soundbites"}

InsightsOf_PlacesFromPeople(analysis, insightType) ==
    IF insightType = "places" THEN analysis.people
    ELSE IF insightType \in SliceNames THEN analysis[insightType]
    ELSE IF insightType = "transformation"
         THEN Some(JsonObject(extractTransformationInsights(analysis)))
    ELSE Some(JsonObject(analysis))

\* The switch on insightType, for a defined analysis.
InsightsOf(analysis, insightType) ==
    IF insightType \in SliceNames THEN analysis[insightType]
    ELSE IF insightType = "transformation"
         THEN Some(JsonObject(extractTransformationInsights(analysis)))
    ELSE Some(JsonObject(analysis))

NotCompletedMessage == <<"Analysis not completed yet or no results available">>

\* The switch on insightType.  analysis is undefined when the results carry no
\* analysis: every case but the default then reads a property of it.
InsightsResult(analysis, insightType) ==
    IF IsNone(analysis)
    THEN IF insightType \in SliceNames \cup {"transformation"}
         THEN Throw(TypeErrorReading(
                  IF insightType = "transformation" THEN "plot" ELSE insightType))
         ELSE Return([success |-> Some(TRUE), insights |-> None])
    ELSE Return([success |-> Some(TRUE), insights |-> InsightsOf(Get(analysis), insightType)])

InsightsOutcome_StatusOnly(got, insightType) ==
    IF got.thrown THEN Throw(got.error)
    ELSE IF got.value.status # "completed"
    THEN Return([success |-> Some(FALSE), error |-> Some(JsText(NotCompletedMessage))])
    ELSE IF IsNone(got.value.results)
    THEN Return([success |-> Some(TRUE), insights |-> None])
    ELSE InsightsResult(Get(got.value.results).analysis, insightType)

InsightsOutcome(got, insightType) ==
    IF got.thrown THEN Throw(got.error)
    ELSE IF got.value.status # "completed" \/ IsNone(got.value.results)
    THEN Return([success |-> Some(FALSE), error |-> Some(JsText(NotCompletedMessage))])
    ELSE InsightsResult(Get(got.value.results).analysis, insightType)

\* After the fetch `got`: the status is used and dropped, the job map is not written.
GetInsightsFetched(jobId, got, insightType, jobsNow) ==
    [outcome |-> InsightsOutcome(got, insightType),
     jobs |-> jobsNow,
     calls |-> <<GetExecutionCall(jobId)>>]

\* const { jobId, insightType = 'all' } = args
InsightTypeOf(args) ==
    IF IsNone(Get(args).insightType) THEN "all" ELSE Get(Get(args).insightType)

GetInsightsBody(args, out, jobsNow) ==
    IF IsNone(args)
    THEN [outcome |-> Throw(DestructureError("jobId")), jobs |-> jobsNow, calls |-> <<>>]
    ELSE GetInsightsFetched(Get(args).jobId, getExecutionStatus(Get(args).jobId, out),
                            InsightTypeOf(args), jobsNow)

executeGetInsights(args, out, jobsNow) ==
    Caught("Failed to get insights: ", GetInsightsBody(args, out, jobsNow))

-----------------------------------------------------------------------------
(* StorytellingTools.executeStartAnalysis *)

UpperLetters ==
    <<"A", "B", "C", "D", "E", "F", "G", "H", "I", "J", "K", "L", "M",
      "N", "O", "P", "Q", "R", "S", "T", "U", "V", "W", "X", "Y", "Z">>
LowerLetters ==
    <<"a", "b", "c", "d", "e", "f", "g", "h", "i", "j", "k", "l", "m",
      "n", "o", "p", "q", "r", "s", "t", "u", "v", "w", "x", "y", "z">>

LowerChar(c) ==
    IF \E i \in 1..26 : UpperLetters[i] = c
    THEN LowerLetters[CHOOSE i \in 1..26 : UpperLetters[i] = c]
    ELSE c

\* String.prototype.toLowerCase
ToLowerCase(text) == [i \in 1..Len(text) |-> LowerChar(text[i])]

\* A URL is held as url.split('.') gives it: its dot-free pieces, at least one.
\* url.split('.').pop()
Extension(url) == Last(url)

mimeMap ==
    (<<"m", "p", "4">> :> "video/mp4") @@
    (<<"a", "v", "i">> :> "video/avi") @@
    (<<"m", "o", "v">> :> "video/quicktime") @@
    (<<"m", "p", "3">> :> "audio/mp3") @@
    (<<"w", "a", "v">> :> "audio/wav") @@
    (<<"f", "l", "a", "c">> :> "audio/flac")

\* The names inherited from Object.prototype that a lower-cased extension can spell.
ProtoKeyChars == <<"_", "_", "p", "r", "o", "t", "o", "_", "_">>
ObjectPrototypeLowerNames ==
    {<<"c", "o", "n", "s", "t", "r", "u", "c", "t", "o", "r">>, ProtoKeyChars}

getMimeTypeFromUrl(url) ==
    LET ext == ToLowerCase(Extension(url)) IN
    OrElse(ObjectLiteralGet(mimeMap, ext, ObjectPrototypeLowerNames, ProtoKeyChars),
           JsStr("application/octet-stream"))

\* x !== false
NotFalse(x) == ~(x.t = "boolean" /\ x.v = FALSE)

\* The MediaFile built for fileUrls[index - 1], as JSON carries it.
MediaFileOf(url, index) ==
    JsonObject([filename |-> Some(<<"interview_", ToString(index), ".", Extension(url)>>),
                filepath |-> Some(url),
                size |-> Some(0),
                mimeType |-> JsonValue(getMimeTypeFromUrl(url))])

ThemeOf(theme) ==
    [name |-> theme.name,
     description |-> OrElse(theme.description, JsStr("")),
     priority |-> OrElse(theme.priority, JsStr("medium"))]

ThemeName(theme) == theme.name

\* outputOptions = {} when the argument is omitted.
EmptyOptions ==
    [createSpreadsheet |-> JsUndefined, createSummary |-> JsUndefined,
     createVideoClips |-> JsUndefined, language |-> JsUndefined]

OutputOptionsOf(outputOptions) ==
    [createSpreadsheet |-> NotFalse(outputOptions.createSpreadsheet),
     createSummary |-> NotFalse(outputOptions.createSummary),
     createVideoClips |-> NotFalse(outputOptions.createVideoClips),
     language |-> OrElse(outputOptions.language, JsStr("en"))]

StartWorkflowCall(body) == [op |-> "POST /webhook/storytelling-analysis", body |-> body]

\* N8NClient.startStorytellingWorkflow: the execution id, an option.
startStorytellingWorkflow(req, out) ==
    IF ~out.ok THEN Throw(Wrapped("Failed to start storytelling workflow: ", out.cause))
    ELSE IF IsNone(out.body)
         THEN Throw(Wrapped("Failed to start storytelling workflow: ",
                            TypeErrorReading("executionId")))
    ELSE Return(Get(out.body).executionId)

PendingStatus(executionId) ==
    [jobId |-> executionId, status |-> "pending", progress |-> 0,
     currentStep |-> JsStr("Initializing analysis...")]

StartRequestOf(themes, outputOptions, fileUrls) ==
    [files |-> [i \in 1..Len(fileUrls) |-> MediaFileOf(fileUrls[i], i)],
     themes |-> [i \in 1..Len(themes) |-> ThemeOf(themes[i])],
     outputOptions |-> OutputOptionsOf(outputOptions)]

\* After the POST `started` of `req`.
StartPosted(themes, req, started, jobsNow) ==
    IF started.thrown
    THEN [outcome |-> Throw(started.error), jobs |-> jobsNow, calls |-> <<StartWorkflowCall(req)>>]
    ELSE [outcome |-> Return(
              [success |-> Some(TRUE),
               jobId |-> started.value,
               message |-> Some(JsText(<<"Storytelling analysis started successfully">>)),
               estimatedDuration |-> Some(JsText(<<"10-30 minutes depending on file sizes">>)),
               themes |-> Some([i \in 1..Len(themes) |-> ThemeName(themes[i])]),
               fileCount |-> Some(Len(req.files))]),
          jobs |-> MapSet(jobsNow, started.value, PendingStatus(started.value)),
          calls |-> <<StartWorkflowCall(req)>>]

StartShaped(themes, req, out, jobsNow) ==
    StartPosted(themes, req, startStorytellingWorkflow(req, out), jobsNow)

\* const { themes, outputOptions = {}, fileUrls } = args
OutputOptionsArg(args) ==
    IF IsNone(Get(args).outputOptions) THEN EmptyOptions ELSE Get(Get(args).outputOptions)

StartAnalysisBody(args, out, jobsNow) ==
    IF IsNone(args)
    THEN [outcome |-> Throw(DestructureError("themes")), jobs |-> jobsNow, calls |-> <<>>]
    ELSE IF IsNone(Get(args).fileUrls) \/ IsNone(Get(args).themes)
    THEN [outcome |-> Throw(TypeErrorReading("map")), jobs |-> jobsNow, calls |-> <<>>]
    ELSE StartShaped(Get(Get(args).themes),
                     StartRequestOf(Get(Get(args).themes), OutputOptionsArg(args),
                                    Get(Get(args).fileUrls)),
                     out, jobsNow)

executeStartAnalysis(args, out, jobsNow) ==
    Caught("Failed to start analysis: ", StartAnalysisBody(args, out, jobsNow))

-----------------------------------------------------------------------------
(* N8NClient.uploadFiles and StorytellingTools.executeUploadFiles *)

UploadCall(file) == [op |-> "POST /webhook/upload-file", file |-> file.originalname]

UploadError(file, e) ==
    Err("Error", <<"Failed to upload file ", file.originalname, ": ">> \o ErrToString(e))

RECURSIVE uploadLoop_SkipFailed(_, _, _, _, _)
uploadLoop_SkipFailed(files, outs, i, uploadedPaths, made) ==
    IF i > Len(files) THEN [outcome |-> Return(uploadedPaths), calls |-> made]
    ELSE IF ~outs[i].ok \/ IsNone(outs[i].body)
    THEN uploadLoop_SkipFailed(files, outs, i + 1, uploadedPaths,
                               Append(made, UploadCall(files[i])))
    ELSE uploadLoop_SkipFailed(files, outs, i + 1,
                               Append(uploadedPaths, Get(outs[i].body).filepath),
                               Append(made, UploadCall(files[i])))

\* for (const file of files): one POST per file; the first throw ends the loop.
RECURSIVE uploadLoop(_, _, _, _, _)
uploadLoop(files, outs, i, uploadedPaths, made) ==
    IF i > Len(files) THEN [outcome |-> Return(uploadedPaths), calls |-> made]
    ELSE
    LET sent == Append(made, UploadCall(files[i])) IN
    IF ~outs[i].ok
    THEN [outcome |-> Throw(UploadError(files[i], outs[i].cause)), calls |-> sent]
    ELSE IF IsNone(outs[i].body)
    THEN [outcome |-> Throw(UploadError(files[i], TypeErrorReading("filepath"))), calls |-> sent]
    ELSE uploadLoop(files, outs, i + 1,
                    Append(uploadedPaths, Get(outs[i].body).filepath), sent)

\* outs[i] is the engine's answer to the POST of files[i], were it made.
uploadFiles(files, outs) == uploadLoop(files, outs, 1, <<>>, <<>>)

\* Buffer.from(content, 'base64').length: three bytes per four characters, less
\* one per "=" of padding.
Base64Length(content) ==
    (Len(content) \div 4) * 3 - Cardinality({i \in 1..Len(content) : content[i] = "="})

MulterFileOf(file) ==
    [originalname |-> file.filename,
     mimetype |-> file.mimeType,
     size |-> Base64Length(Get(file.content))]

BufferTypeError ==
    Err("TypeError", <<"The first argument must be of type string or an instance of Buffer, ",
                       "ArrayBuffer, or Array or an Array-like Object. Received undefined">>)

\* After the uploads: one result entry per uploaded path.
UploadResult(files, multerFiles, uploaded, jobsNow) ==
    IF uploaded.outcome.thrown
    THEN [outcome |-> uploaded.outcome, jobs |-> jobsNow, calls |-> uploaded.calls]
    ELSE [outcome |-> Return(
              [success |-> Some(TRUE),
               message |-> Some(JsText(<<"Files uploaded successfully">>)),
               files |-> Some([i \in 1..Len(uploaded.outcome.value) |->
                                  JsonObject([filename |-> Some(files[i].filename),
                                              filepath |-> uploaded.outcome.value[i],
                                              size |-> Some(multerFiles[i].size),
                                              mimeType |-> Some(files[i].mimeType)])])]),
          jobs |-> jobsNow,
          calls |-> uploaded.calls]

UploadConverted(files, multerFiles, outs, jobsNow) ==
    UploadResult(files, multerFiles, uploadFiles(multerFiles, outs), jobsNow)

UploadFilesBody(args, outs, jobsNow) ==
    IF IsNone(args)
    THEN [outcome |-> Throw(DestructureError("files")), jobs |-> jobsNow, calls |-> <<>>]
    ELSE IF IsNone(Get(args).files)
    THEN [outcome |-> Throw(TypeErrorReading("map")), jobs |-> jobsNow, calls |-> <<>>]
    ELSE IF \E i \in 1..Len(Get(Get(args).files)) : IsNone(Get(Get(args).files)[i].content)
    THEN [outcome |-> Throw(BufferTypeError), jobs |-> jobsNow, calls |-> <<>>]
    ELSE UploadConverted(Get(Get(args).files),
                         [i \in 1..Len(Get(Get(args).files)) |->
                             MulterFileOf(Get(Get(args).files)[i])],
                         outs, jobsNow)

executeUploadFiles(args, outs, jobsNow) ==
    Caught("Failed to upload files: ", UploadFilesBody(args, outs, jobsNow))

-----------------------------------------------------------------------------
(* N8NClient.listActiveExecutions and StorytellingTools.executeListJobs *)

ListExecutionsCall == [op |-> "GET /api/v1/executions", filter |-> "{\"finished\": false}"]

ActiveStatusOf(execution) ==
    [jobId |-> execution.id,
     status |-> "processing",
     progress |-> calculateProgress(execution),
     currentStep |-> getCurrentStep(execution)]

\* response.data.data.map(...): the body and its data array are both read.
listActiveExecutions(out) ==
    IF ~out.ok THEN Throw(Wrapped("Failed to list executions: ", out.cause))
    ELSE IF IsNone(out.body)
    THEN Throw(Wrapped("Failed to list executions: ", TypeErrorReading("data")))
    ELSE IF IsNone(Get(out.body).data)
    THEN Throw(Wrapped("Failed to list executions: ", TypeErrorReading("map")))
    ELSE Return([i \in 1..Len(Get(Get(out.body).data)) |->
                    ActiveStatusOf(Get(Get(out.body).data)[i])])

ActiveJobOf(job) ==
    JsonObject([jobId |-> job.jobId,
                status |-> Some(job.status),
                progress |-> Some(job.progress),
                currentStep |-> JsonValue(job.currentStep)])

ListJobsBody_CachingFirst(listed, jobsNow) ==
    [outcome |-> IF listed.thrown THEN Throw(listed.error)
                 ELSE Return([success |-> Some(TRUE),
                              activeJobs |-> Some([i \in 1..Len(listed.value) |->
                                                      ActiveJobOf(listed.value[i])]),
                              totalActive |-> Some(Len(listed.value))]),
     jobs |-> IF listed.thrown THEN jobsNow
              ELSE IF Len(listed.value) = 0 THEN jobsNow
              ELSE MapSet(jobsNow, listed.value[1].jobId, listed.value[1]),
     calls |-> <<ListExecutionsCall>>]

ListJobsBody(listed, jobsNow) ==
    [outcome |-> IF listed.thrown THEN Throw(listed.error)
                 ELSE Return([success |-> Some(TRUE),
                              activeJobs |-> Some([i \in 1..Len(listed.value) |->
                                                      ActiveJobOf(listed.value[i])]),
                              totalActive |-> Some(Len(listed.value))]),
     jobs |-> jobsNow,
     calls |-> <<ListExecutionsCall>>]

executeListJobs(out, jobsNow) ==
    Caught("Failed to list jobs: ", ListJobsBody(listActiveExecutions(out), jobsNow))

-----------------------------------------------------------------------------
(* The transport adapter: the CallToolRequestSchema handler *)

ToolNames ==
    {"start_storytelling_analysis", "get_analysis_status", "list_active_jobs",
     "upload_interview_files", "get_story_insights"}

Returned(done) == [outcome |-> Return(done.result), jobs |-> done.jobs, calls |-> done.calls]

\* The switch inside the handler's try: the tool's result, or a throw.
ToolSwitch(name, args, out, jobsNow) ==
    CASE name = "start_storytelling_analysis" ->
            Returned(executeStartAnalysis(args, out, jobsNow))
      [] name = "get_analysis_status" -> Returned(executeGetStatus(args, out, jobsNow))
      [] name = "list_active_jobs" -> Returned(executeListJobs(out, jobsNow))
      [] name = "upload_interview_files" -> Returned(executeUploadFiles(args, out, jobsNow))
      [] name = "get_story_insights" -> Returned(executeGetInsights(args, out, jobsNow))
      [] OTHER -> [outcome |-> Throw(Err("Error", <<"Unknown tool: ", name>>)),
                   jobs |-> jobsNow, calls |-> <<>>]

\* error instanceof Error ? error.message : 'Unknown error occurred'
HandlerMessage(e) ==
    IF e.name \in ErrorClasses THEN e.message ELSE <<"Unknown error occurred">>

HandlerCatch_Rethrow(body) ==
    [response |-> IF body.outcome.thrown
                  THEN [escaped |-> TRUE, isError |-> TRUE, payload |-> <<>>]
                  ELSE [escaped |-> FALSE, isError |-> FALSE,
                        payload |-> JsonObject(body.outcome.value)],
     jobs |-> body.jobs,
     calls |-> body.calls]

\* The handler's return and its catch.  The payload is the object JSON.stringify
\* writes into content[0].text; escaped says that the handler threw instead of
\* returning.
HandlerCatch(body) ==
    [response |-> IF body.outcome.thrown
                  THEN [escaped |-> FALSE, isError |-> TRUE,
                        payload |-> JsonObject(
                            [success |-> Some(FALSE),
                             error |-> Some(JsText(HandlerMessage(body.outcome.error)))])]
                  ELSE [escaped |-> FALSE, isError |-> FALSE,
                        payload |-> JsonObject(body.outcome.value)],
     jobs |-> body.jobs,
     calls |-> body.calls]

CallToolHandler(name, args, out, jobsNow) == HandlerCatch(ToolSwitch(name, args, out, jobsNow))

-----------------------------------------------------------------------------
(* Inputs: what callers pass and what the engine answers *)

MaxNodes == 12        \* run-data entries of an execution
MaxPlot == 2          \* plot entries of an analysis
MaxSoundbites == 2    \* soundbites of an analysis
MaxUrls == 2          \* fileUrls of a start request
MaxFiles == 3         \* files of an upload request
MaxActive == 2        \* executions the engine lists as active

SeqsUpTo(S, n) == UNION {[1..k -> S] : k \in 0..n}
Options(S) == {None} \cup {Some(x) : x \in S}

JobIds == {"exec-1", "exec-2"}

FinishedValues == {JsUndefined, JsBool(FALSE), JsBool(TRUE)}
StopTimestamp == JsStr("2024-05-01T10:00:00.000Z")
StoppedAtValues == {JsUndefined, JsNull, JsStr(""), StopTimestamp}

KnownNodes ==
    <<"Upload Interviews Webhook", "Process Input Files", "Transcribe with Whisper",
      "4P Story Analysis", "Update Google Spreadsheet", "Create Story Summary Doc",
      "Extract Soundbite Clips", "Create Final Story Video">>

\* The i-th node of a workflow run: the eight known nodes, then further ones.
NodeAt(i) == IF i <= Len(KnownNodes) THEN KnownNodes[i] ELSE "Node " \o ToString(i)

RunDatas ==
    {None} \cup {Some([i \in 1..n |-> NodeAt(i)]) : n \in 0..MaxNodes}
           \cup {Some(<<"Custom Node">>), Some(<<"Process Input Files", "constructor">>)}

ErrorMessages == {JsUndefined, JsStr("disk full")}

TextExact == TransformationNeedle
TextInside == <<"a", " ">> \o TransformationNeedle \o <<"s">>
TextCapital == <<"T">> \o Tail(TransformationNeedle)
TextOther == <<"s", "e", "t", "u", "p">>

PlotEntries ==
    {[event |-> "decision", timestamp |-> 10, significance |-> TextExact],
     [event |-> "return", timestamp |-> 20, significance |-> TextInside],
     [event |-> "title", timestamp |-> 30, significance |-> TextCapital],
     [event |-> "arrival", timestamp |-> 40, significance |-> TextOther]}

Soundbites ==
    {[text |-> "quote", startTime |-> 0, endTime |-> 5, emotionalImpact |-> n] : n \in {7, 8, 10}}

Alice == [name |-> "Alice", role |-> "founder", significance |-> "learns to lead"]
Bob == [name |-> "Bob", role |-> "mentor", significance |-> "lets go"]
PeopleLists == {None, Some(<<>>), Some(<<Alice>>), Some(<<Bob, Alice>>)}
PlaceLists == {None, Some(<<[location |-> "workshop", context |-> "start", importance |-> "home"]>>)}
PurposeLists == {None, Some(<<[motivation |-> "family", goal |-> "stay", transformation |-> "growth"]>>)}

AnalysisOf(people, places, purpose, plot, soundbites) ==
    [people |-> people, places |-> places, purpose |-> purpose, plot |-> plot,
     soundbites |-> soundbites, overallNarrative |-> Some("a story")]

Analyses ==
    {AnalysisOf(pe, pl, pu, po, sb) :
        pe \in PeopleLists, pl \in PlaceLists, pu \in PurposeLists,
        po \in Options(SeqsUpTo(PlotEntries, MaxPlot)),
        sb \in Options(SeqsUpTo(Soundbites, MaxSoundbites))}

SampleAnalysis ==
    AnalysisOf(Some(<<Alice>>), None, Some(<<>>),
               Some(<<[event |-> "decision", timestamp |-> 10, significance |-> TextExact]>>),
               Some(<<[text |-> "quote", startTime |-> 0, endTime |-> 5, emotionalImpact |-> 8]>>))

Deliverables == [spreadsheetUrl |-> "https://sheets.example/1"]

DataOf(runData, errorMessage, analysis, deliverables) ==
    [runData |-> runData, errorMessage |-> errorMessage,
     analysis |-> analysis, deliverables |-> deliverables]

ExecutionOf(finished, stoppedAt, data) ==
    [finished |-> finished, stoppedAt |-> stoppedAt, data |-> data]

\* Execution records for the status mapper: every flag pair, every run-data shape.
StatusExecutions ==
    {ExecutionOf(f, s, d) :
        f \in FinishedValues, s \in StoppedAtValues,
        d \in {None} \cup {Some(DataOf(r, m, a, Some(Deliverables))) :
                              r \in RunDatas, m \in ErrorMessages,
                              a \in {None, Some(SampleAnalysis)}}}

\* Execution records for the insights: every analysis on a finished execution, and
\* every flag pair on a few payloads.
InsightExecutions ==
    {ExecutionOf(JsBool(TRUE), JsNull, Some(DataOf(None, JsUndefined, Some(a), None))) :
        a \in Analyses}
    \cup
    {ExecutionOf(f, s, d) :
        f \in FinishedValues, s \in StoppedAtValues,
        d \in {None, Some(DataOf(None, JsStr("disk full"), None, None)),
               Some(DataOf(None, JsUndefined, Some(SampleAnalysis), Some(Deliverables)))}}

\* Two execution records for runs that interleave the tools: one running, one
\* completed with results.
SampleExecutions ==
    {ExecutionOf(JsBool(FALSE), JsNull,
                 Some(DataOf(Some(<<"Upload Interviews Webhook">>), JsUndefined, None, None))),
     ExecutionOf(JsBool(TRUE), JsNull,
                 Some(DataOf(None, JsUndefined, Some(SampleAnalysis), Some(Deliverables))))}

GetOutcomes(executions) ==
    {HttpFailure, HttpOk(None)} \cup {HttpOk(Some(e)) : e \in executions}

\* keys: the jobId values passed, None for a request without one.
StatusArgs(keys) == {None} \cup {Some([jobId |-> j]) : j \in keys}

InsightTypes ==
    Options(SliceNames \cup {"transformation", "all", "summary"})

InsightArgs(keys, types) ==
    {None} \cup {Some([jobId |-> j, insightType |-> t]) : j \in keys, t \in types}


UrlMp4 == << <<"a">>, <<"m", "p", "4">> >>
UrlUpperMp3 == << <<"b">>, <<"M", "P", "3">> >>
UrlTwoDotsFlac == << <<"c">>, <<"t", "a", "k", "e">>, <<"f", "l", "a", "c">> >>
UrlMov == << <<"d">>, <<"m", "o", "v">> >>
UrlTxt == << <<"n", "o", "t", "e", "s">>, <<"t", "x", "t">> >>
UrlNoDot == << <<"c", "l", "i", "p">> >>
UrlConstructor == << <<"x">>, <<"c", "o", "n", "s", "t", "r", "u", "c", "t", "o", "r">> >>

Urls == {UrlMp4, UrlUpperMp3, UrlTwoDotsFlac, UrlMov, UrlTxt, UrlNoDot, UrlConstructor}

FamilyTheme == [name |-> "Family", description |-> JsUndefined, priority |-> JsUndefined]
WorkTheme == [name |-> "Work", description |-> JsStr("the workshop"), priority |-> JsStr("high")]
ThemeLists == {<<FamilyTheme>>, <<WorkTheme, FamilyTheme>>}

FlagValues == {JsUndefined, JsBool(TRUE), JsBool(FALSE)}
LanguageValues == {JsUndefined, JsStr(""), JsStr("fr")}

OutputOptionChoices ==
    {None} \cup
    {Some([createSpreadsheet |-> a, createSummary |-> b, createVideoClips |-> c, language |-> l]) :
        a \in FlagValues, b \in FlagValues, c \in FlagValues, l \in LanguageValues}

StartArgsOf(themes, outputOptions, fileUrls) ==
    Some([themes |-> themes, outputOptions |-> outputOptions, fileUrls |-> fileUrls])

\* Start requests for the request shaping: every option record, every URL list.
StartArgs ==
    {StartArgsOf(Some(t), o, Some(u)) :
        t \in ThemeLists, o \in OutputOptionChoices, u \in SeqsUpTo(Urls, MaxUrls)}

\* A few start requests for runs that interleave the tools.
SampleStartArgs ==
    {None,
     StartArgsOf(Some(<<FamilyTheme>>), None, None),
     StartArgsOf(None, None, Some(<<UrlMp4>>)),
     StartArgsOf(Some(<<FamilyTheme>>), None, Some(<<UrlMp4, UrlUpperMp3>>))}

StartOutcomes(keys) ==
    {HttpFailure, HttpOk(None)} \cup {HttpOk(Some([executionId |-> k])) : k \in keys}

FileMp4 == [filename |-> "a.mp4", content |-> Some(<<"Q", "Q", "=", "=">>), mimeType |-> "video/mp4"]
FileMp3 == [filename |-> "b.mp3", content |-> Some(<<"Q", "U", "J", "D">>), mimeType |-> "audio/mp3"]
FileNoContent == [filename |-> "c.wav", content |-> None, mimeType |-> "audio/wav"]

UploadedPath == [filepath |-> Some("/data/uploads/1")]
UploadOutcomes == {HttpFailure, HttpOk(None), HttpOk(Some(UploadedPath))}

UploadArgs(files, n) == {None, Some([files |-> None])} \cup
    {Some([files |-> Some(l)]) : l \in SeqsUpTo(files, n)}

\* The files of an upload request that reaches the loop; none otherwise.
FileCount(args) ==
    IF IsNone(args) THEN 0 ELSE IF IsNone(Get(args).files) THEN 0 ELSE Len(Get(Get(args).files))

ActiveExecutions ==
    {[id |-> Some("exec-1"),
      data |-> Some(DataOf(Some(<<"Upload Interviews Webhook">>), JsUndefined, None, None))],
     [id |-> Some("exec-7"), data |-> None]}

ListOutcomes ==
    {HttpFailure, HttpOk(None), HttpOk(Some([data |-> None]))} \cup
    {HttpOk(Some([data |-> Some(l)])) : l \in SeqsUpTo(ActiveExecutions, MaxActive)}

UnknownToolNames == {"delete_job", ""}

-----------------------------------------------------------------------------
(* The state machine: one action per tool invocation *)

EmptyMap == <<>>

Init ==
    /\ jobs = EmptyMap
    /\ request = None
    /\ response = None
    /\ calls = <<>>
    /\ answers = <<>>
    /\ fetched = EmptyMap
    /\ polled = EmptyMap

\* The handler ran to completion on one request and returned h.
Handled(name, args, out, h) ==
    /\ jobs' = h.jobs
    /\ request' = Some([name |-> name, arguments |-> args])
    /\ response' = Some(h.response)
    /\ calls' = h.calls
    /\ answers' = IF name = "upload_interview_files"
                  THEN [i \in 1..Len(h.calls) |-> out[i]]
                  ELSE IF Len(h.calls) = 0 THEN <<>> ELSE <<out>>

Invoke(name, args, out) == Handled(name, args, out, CallToolHandler(name, args, out, jobs))

\* History: the invocation fetched the status `got` of job key id (byPoll: through
\* get_analysis_status).
Fetched(id, got, byPoll) ==
    IF got.thrown
    THEN UNCHANGED <<fetched, polled>>
    ELSE /\ fetched' = MapSet(fetched, id, got.value)
         /\ polled' = IF byPoll THEN MapSet(polled, id, got.value) ELSE polled

\* History: start analysis wrote the pending record of the id the engine returned.
Started(outcome, out) ==
    IF outcome.thrown
    THEN UNCHANGED <<fetched, polled>>
    ELSE /\ fetched' = MapSet(fetched, Get(out.body).executionId,
                              PendingStatus(Get(out.body).executionId))
         /\ polled' = MapSet(polled, Get(out.body).executionId,
                             PendingStatus(Get(out.body).executionId))

StartAnalysis(argset, outcomes) ==
    \E args \in argset, out \in outcomes :
        /\ Invoke("start_storytelling_analysis", args, out)
        /\ Started(StartAnalysisBody(args, out, jobs).outcome, out)

GetStatus(argset, outcomes) ==
    \E args \in argset, out \in outcomes :
        /\ Invoke("get_analysis_status", args, out)
        /\ IF IsNone(args) THEN UNCHANGED <<fetched, polled>>
           ELSE Fetched(Get(args).jobId, getExecutionStatus(Get(args).jobId, out), TRUE)

GetInsights(argset, outcomes) ==
    \E args \in argset, out \in outcomes :
        /\ Invoke("get_story_insights", args, out)
        /\ IF IsNone(args) THEN UNCHANGED <<fetched, polled>>
           ELSE Fetched(Get(args).jobId, getExecutionStatus(Get(args).jobId, out), FALSE)

ListJobs(outcomes) ==
    \E out \in outcomes :
        /\ Invoke("list_active_jobs", None, out)
        /\ UNCHANGED <<fetched, polled>>

UploadFiles(argset, outcomes) ==
    \E args \in argset :
        \E outs \in [1..FileCount(args) -> outcomes] :
            /\ Invoke("upload_interview_files", args, outs)
            /\ UNCHANGED <<fetched, polled>>

UnknownTool(names) ==
    \E name \in names :
        /\ Invoke(name, None, None)
        /\ UNCHANGED <<fetched, polled>>

JobKeys == {Some(j) : j \in JobIds}
OneJobKey == {Some("exec-1")}

\* The server: its tools invoked in any order, on a few requests and answers each.
Next ==
    \/ StartAnalysis(SampleStartArgs, StartOutcomes(JobKeys))
    \/ GetStatus(StatusArgs(JobKeys), GetOutcomes(SampleExecutions))
    \/ ListJobs(ListOutcomes)
    \/ UploadFiles(UploadArgs({FileMp4}, 1), UploadOutcomes)
    \/ GetInsights(InsightArgs(JobKeys, {None}), GetOutcomes(SampleExecutions))
    \/ UnknownTool(UnknownToolNames)

Spec == Init /\ [][Next]_vars

\* A server that has handled no request yet.  No tool reads the job map, so what
\* a request returns on a fresh server is what it returns in any state.
Fresh == IsNone(request)

\* One request of any kind on a fresh server, over every request and every answer.
NextRequest ==
    /\ Fresh
    /\ \/ StartAnalysis(StartArgs \cup SampleStartArgs, StartOutcomes(Options(JobIds)))
       \/ GetStatus(StatusArgs(Options(OneJobKey)), GetOutcomes(StatusExecutions))
       \/ ListJobs(ListOutcomes)
       \/ UploadFiles(UploadArgs({FileMp4, FileMp3, FileNoContent}, MaxFiles), UploadOutcomes)
       \/ GetInsights(InsightArgs(Options(OneJobKey), InsightTypes),
                      GetOutcomes(InsightExecutions))
       \/ UnknownTool(UnknownToolNames)
SpecRequest == Init /\ [][NextRequest]_vars

\* One get_analysis_status on a fresh server, over every execution record of the
\* status mapper.
NextStatus ==
    Fresh /\ GetStatus({Some([jobId |-> k]) : k \in OneJobKey}, GetOutcomes(StatusExecutions))
SpecStatus == Init /\ [][NextStatus]_vars

\* One get_story_insights on a fresh server, over every analysis and insight type.
NextInsights ==
    Fresh /\ GetInsights(InsightArgs(OneJobKey, InsightTypes), GetOutcomes(InsightExecutions))
SpecInsights == Init /\ [][NextInsights]_vars

\* One start_storytelling_analysis on a fresh server, over every request shape.
NextStart ==
    Fresh /\ StartAnalysis(StartArgs, {HttpFailure, HttpOk(Some([executionId |-> Some("exec-1")]))})
SpecStart == Init /\ [][NextStart]_vars

\* One upload_interview_files on a fresh server, over every batch and every answer
\* of the engine.
NextUpload ==
    Fresh /\ UploadFiles(UploadArgs({FileMp4, FileMp3, FileNoContent}, MaxFiles), UploadOutcomes)
SpecUpload == Init /\ [][NextUpload]_vars

-----------------------------------------------------------------------------
(* What the claims read from a state *)

Req == Get(request)
Payload == Get(response).payload

\* The last request was a call of tool `name`.
Called(name) == IsSome(request) /\ Req.name = name

\* The last request was a call of `name` with arguments, and the engine answered
\* its one call with an execution record.
GotExecution(name) ==
    /\ Called(name)
    /\ IsSome(Req.arguments)
    /\ Len(answers) = 1
    /\ answers[1].ok
    /\ IsSome(answers[1].body)

Execution == Get(answers[1].body)
JobKey == Get(Req.arguments).jobId

\* A stop timestamp is present: stoppedAt is a non-empty string (null, a missing
\* field and the empty string carry no timestamp).
HasStopTimestamp(e) == e.stoppedAt.t = "string" /\ e.stoppedAt.v # ""
IsFinished(e) == e.finished = JsBool(TRUE)

-----------------------------------------------------------------------------
(* C1 *)

ExpectedStatus(e) ==
    IF HasStopTimestamp(e) THEN "failed"
    ELSE IF IsFinished(e) THEN "completed"
    ELSE "processing"

\* C1: for every execution record, the status the mapper yields (the one the client
\* returns and the tool caches and reports) is failed when a stop timestamp is
\* present, whatever the finished flag; otherwise completed when finished is true;
\* otherwise processing.
C1_StatusByPriority ==
    GotExecution("get_analysis_status") =>
        /\ JobKey \in DOMAIN jobs
        /\ jobs[JobKey].status = ExpectedStatus(Execution)
        /\ Payload.success => Payload.status = ExpectedStatus(Execution)

C1_Witness ==
    /\ GotExecution("get_analysis_status")
    /\ IsFinished(Execution)
    /\ HasStopTimestamp(Execution)
    /\ Payload.success
    /\ Payload.status = "failed"

-----------------------------------------------------------------------------
(* C2 *)

\* C2: whatever the tool name, the arguments and the engine's answers, the handler
\* returns (no error escapes it) a payload with a boolean success; a payload with
\* success = false carries an error string; an unknown tool name yields
\* success = false in an error-flagged response.
C2_StructuredResponse ==
    IsSome(request) =>
        /\ ~Get(response).escaped
        /\ "success" \in DOMAIN Payload
        /\ Payload.success \in BOOLEAN
        /\ ~Payload.success =>
              /\ "error" \in DOMAIN Payload
              /\ Payload.error.t = "string"
              /\ Payload.error.v \in Seq(STRING)
        /\ Req.name \notin ToolNames =>
              /\ ~Payload.success
              /\ Get(response).isError

C2_Witness ==
    /\ IsSome(request)
    /\ Req.name \notin ToolNames
    /\ ~Get(response).escaped
    /\ ~Payload.success
    /\ Payload.error.v = <<"Unknown tool: ", Req.name>>

-----------------------------------------------------------------------------
(* C3 *)

\* C3 as stated: every entry of the job map equals the normalized status of the
\* most recent fetch of that execution from the engine (or the pending record a
\* later start wrote).  The fetch get_story_insights makes is not stored.
C3_MapReflectsLastFetch ==
    \A id \in DOMAIN jobs : id \in DOMAIN fetched /\ jobs[id] = fetched[id]

\* C3: after any sequence of tool calls the job map holds, for each execution id,
\* exactly the normalized status of the most recent successful get_analysis_status
\* fetch of that id, or the pending record when start analysis wrote the id since;
\* fetches by get_story_insights, list jobs and uploads leave the map as it was.
C3_MapReflectsLastPoll ==
    /\ DOMAIN jobs = DOMAIN polled
    /\ \A id \in DOMAIN jobs : jobs[id] = polled[id]

C3_Witness ==
    /\ Called("get_story_insights")
    /\ IsSome(Req.arguments)
    /\ JobKey \in DOMAIN jobs
    /\ jobs[JobKey] = polled[JobKey]
    /\ jobs[JobKey].status = "processing"
    /\ fetched[JobKey].status = "completed"

-----------------------------------------------------------------------------
(* C4 *)

UploadBatch == Get(Get(Req.arguments).files)

\* The positions whose remote write failed: no 2xx answer, or an answer without
\* a usable body.
FailedWrites == {i \in 1..Len(answers) : ~answers[i].ok \/ IsNone(answers[i].body)}
FirstFailedWrite == CHOOSE i \in FailedWrites : \A j \in FailedWrites : i <= j

\* C4: when the remote write of the file at position k of an upload batch fails,
\* whatever k is, the tool answers success = false with an error that names that
\* file and no other, files 1..k were each sent once in order and none after k,
\* and no per-file result is reported.
C4_UploadFailureNamesFile ==
    (Called("upload_interview_files") /\ Len(calls) > 0 /\ FailedWrites # {}) =>
        /\ ~Payload.success
        /\ SubSeq(Payload.error.v, 1, 4) =
               <<"Failed to upload files: ", "Failed to upload file ",
                 UploadBatch[FirstFailedWrite].filename, ": ">>
        /\ \A i \in 1..Len(UploadBatch) :
               (\E t \in 1..Len(Payload.error.v) : Payload.error.v[t] = UploadBatch[i].filename)
                   => UploadBatch[i].filename = UploadBatch[FirstFailedWrite].filename
        /\ Len(calls) = FirstFailedWrite
        /\ \A i \in 1..Len(calls) : calls[i].file = UploadBatch[i].filename
        /\ "files" \notin DOMAIN Payload

C4_Witness ==
    /\ Called("upload_interview_files")
    /\ Len(calls) = 3
    /\ FailedWrites = {3}
    /\ UploadBatch[3].filename # UploadBatch[1].filename
    /\ ~Payload.success
    /\ Payload.error.v[3] = UploadBatch[3].filename

-----------------------------------------------------------------------------
(* C5 *)

\* The engine's error message of an execution record, when it carries one.
HasEngineError(e) == IsSome(e.data) /\ Get(e.data).errorMessage.t = "string"
EngineError(e) == Get(e.data).errorMessage

\* C5: a fetched execution with a stop timestamp and an engine error message m is
\* reported with status failed, with m as the error, unchanged, and without
\* results; results are carried only by an execution that has finished and has
\* no stop timestamp.
C5_FailedCarriesEngineError ==
    GotExecution("get_analysis_status") =>
        /\ (HasStopTimestamp(Execution) /\ HasEngineError(Execution)) =>
              /\ jobs[JobKey].status = "failed"
              /\ jobs[JobKey].error = EngineError(Execution)
              /\ IsNone(jobs[JobKey].results)
              /\ Payload.success
              /\ Payload.status = "failed"
              /\ "error" \in DOMAIN Payload
              /\ Payload.error = EngineError(Execution)
              /\ "results" \notin DOMAIN Payload
        /\ IsSome(jobs[JobKey].results) =>
              IsFinished(Execution) /\ ~HasStopTimestamp(Execution)
        /\ "results" \in DOMAIN Payload =>
              IsFinished(Execution) /\ ~HasStopTimestamp(Execution)

C5_Witness ==
    /\ GotExecution("get_analysis_status")
    /\ HasStopTimestamp(Execution)
    /\ IsFinished(Execution)
    /\ HasEngineError(Execution)
    /\ IsSome(Get(Execution.data).analysis)
    /\ Payload.status = "failed"
    /\ Payload.error = JsStr("disk full")
    /\ "results" \notin DOMAIN Payload

-----------------------------------------------------------------------------
(* C6 *)

HasRunData(e) == IsSome(e.data) /\ IsSome(Get(e.data).runData)
NodeCount(e) == IF HasRunData(e) THEN Len(Get(Get(e.data).runData)) ELSE 0

\* C6: the progress of a fetched execution is between 0 and 100, is 0 without run
\* data, is 100 with 10 or more run-data entries, and is at least the progress of
\* every execution record with no more run-data entries (monotonic).
C6_ProgressClampedMonotonic ==
    GotExecution("get_analysis_status") =>
        /\ jobs[JobKey].progress \in 0..100
        /\ ~HasRunData(Execution) => jobs[JobKey].progress = 0
        /\ NodeCount(Execution) >= 10 => jobs[JobKey].progress = 100
        /\ \A other \in StatusExecutions :
               NodeCount(other) <= NodeCount(Execution)
                   => calculateProgress(other) <= jobs[JobKey].progress
        /\ Payload.success => Payload.progress = jobs[JobKey].progress

C6_Witness ==
    /\ GotExecution("get_analysis_status")
    /\ NodeCount(Execution) = 12
    /\ Payload.success
    /\ Payload.progress = 100

-----------------------------------------------------------------------------
(* C7 *)

\* The fetched execution is completed and carries results.
CompletedWithResults(e) == IsFinished(e) /\ ~HasStopTimestamp(e) /\ IsSome(e.data)

\* C7: get_story_insights answers success = true only when the status it has just
\* fetched is completed and carries results; for every other fetched status it
\* answers success = false with the not-completed error and no insights; when
\* the fetch fails it answers success = false.
C7_InsightsOnlyWhenCompleted ==
    Called("get_story_insights") =>
        /\ Payload.success =>
              /\ GotExecution("get_story_insights")
              /\ CompletedWithResults(Execution)
              /\ fetched[JobKey].status = "completed"
              /\ IsSome(fetched[JobKey].results)
        /\ (GotExecution("get_story_insights") /\ ~CompletedWithResults(Execution)) =>
              /\ ~Payload.success
              /\ Payload.error = JsText(NotCompletedMessage)
              /\ "insights" \notin DOMAIN Payload
        /\ ~GotExecution("get_story_insights") => ~Payload.success

C7_Witness ==
    /\ GotExecution("get_story_insights")
    /\ IsFinished(Execution)
    /\ ~HasStopTimestamp(Execution)
    /\ IsNone(Execution.data)
    /\ ~Payload.success
    /\ Payload.error = JsText(NotCompletedMessage)

-----------------------------------------------------------------------------
(* C8 *)

\* get_story_insights fetched a completed execution whose results hold an analysis.
GotAnalysis ==
    /\ GotExecution("get_story_insights")
    /\ CompletedWithResults(Execution)
    /\ IsSome(Get(Execution.data).analysis)

SourceAnalysis == Get(Get(Execution.data).analysis)
RequestedType == Get(Req.arguments).insightType

\* C8: for a completed job whose results hold an analysis, asking for people,
\* places, purpose, plot or soundbites returns exactly that slice of the analysis
\* (nothing when the analysis lacks it), and asking for all, or for no type,
\* returns every slice the analysis has, each unmodified.
C8_SlicesUnmodified ==
    GotAnalysis =>
        /\ (IsSome(RequestedType) /\ Get(RequestedType) \in SliceNames) =>
              /\ Payload.success
              /\ IF IsSome(SourceAnalysis[Get(RequestedType)])
                 THEN /\ "insights" \in DOMAIN Payload
                      /\ Payload.insights = Get(SourceAnalysis[Get(RequestedType)])
                 ELSE "insights" \notin DOMAIN Payload
        /\ (RequestedType \in {None, Some("all")}) =>
              /\ Payload.success
              /\ "insights" \in DOMAIN Payload
              /\ \A slice \in SliceNames :
                    IF IsSome(SourceAnalysis[slice])
                    THEN /\ slice \in DOMAIN Payload.insights
                         /\ Payload.insights[slice] = Get(SourceAnalysis[slice])
                    ELSE slice \notin DOMAIN Payload.insights

C8_Witness ==
    /\ GotAnalysis
    /\ RequestedType = Some("places")
    /\ IsSome(SourceAnalysis.places)
    /\ SourceAnalysis.people = Some(<<Bob, Alice>>)
    /\ Payload.success
    /\ Payload.insights = Get(SourceAnalysis.places)

-----------------------------------------------------------------------------
(* C9 *)

\* text contains needle as a contiguous run of characters.
HasSubstring(text, needle) ==
    \E from \in 0..Len(text) : \E to \in from..Len(text) :
        SubSeq(text, from + 1, to) = needle

\* The entries of list at the positions in kept, in the order of the list.
KeptAt(list, kept) ==
    [j \in 1..Cardinality(kept) |->
        list[CHOOSE i \in kept : Cardinality({k \in kept : k <= i}) = j]]

\* C9: the transformation insights of an analysis hold exactly the plot entries
\* whose significance contains "transformation", exactly the soundbites whose
\* emotional impact is strictly greater than 7, both in source order, and one
\* {character, transformation} pair per person, taken from the person's name
\* and significance.
C9_TransformationInsights ==
    (GotAnalysis /\ RequestedType = Some("transformation")) =>
        /\ Payload.success
        /\ "insights" \in DOMAIN Payload
        /\ IsSome(SourceAnalysis.plot) =>
              /\ "transformationMoments" \in DOMAIN Payload.insights
              /\ Payload.insights.transformationMoments =
                    KeptAt(Get(SourceAnalysis.plot),
                           {i \in 1..Len(Get(SourceAnalysis.plot)) :
                               HasSubstring(Get(SourceAnalysis.plot)[i].significance,
                                            TransformationNeedle)})
        /\ IsSome(SourceAnalysis.soundbites) =>
              /\ "emotionalHighpoints" \in DOMAIN Payload.insights
              /\ Payload.insights.emotionalHighpoints =
                    KeptAt(Get(SourceAnalysis.soundbites),
                           {i \in 1..Len(Get(SourceAnalysis.soundbites)) :
                               Get(SourceAnalysis.soundbites)[i].emotionalImpact > 7})
              /\ \A i \in 1..Len(Payload.insights.emotionalHighpoints) :
                    Payload.insights.emotionalHighpoints[i].emotionalImpact # 7
        /\ IsSome(SourceAnalysis.people) =>
              /\ "keyCharacterArcs" \in DOMAIN Payload.insights
              /\ Len(Payload.insights.keyCharacterArcs) = Len(Get(SourceAnalysis.people))
              /\ \A i \in 1..Len(Get(SourceAnalysis.people)) :
                    Payload.insights.keyCharacterArcs[i] =
                        [character |-> Get(SourceAnalysis.people)[i].name,
                         transformation |-> Get(SourceAnalysis.people)[i].significance]

C9_Witness ==
    /\ GotAnalysis
    /\ RequestedType = Some("transformation")
    /\ IsSome(SourceAnalysis.soundbites)
    /\ Len(Get(SourceAnalysis.soundbites)) = 2
    /\ Get(SourceAnalysis.soundbites)[1].emotionalImpact = 7
    /\ Get(SourceAnalysis.soundbites)[2].emotionalImpact = 8
    /\ Len(Payload.insights.emotionalHighpoints) = 1
    /\ IsSome(SourceAnalysis.plot)
    /\ Len(Get(SourceAnalysis.plot)) = 2
    /\ Get(SourceAnalysis.plot)[1].significance = TextCapital
    /\ Get(SourceAnalysis.plot)[2].significance = TextInside
    /\ Len(Payload.insights.transformationMoments) = 1
    /\ SourceAnalysis.people = Some(<<Bob, Alice>>)
    /\ Payload.insights.keyCharacterArcs[1].character = "Bob"

-----------------------------------------------------------------------------
(* C10 *)

\* The table entry of the lower-cased extension, else the default type.
ExpectedMimeType(url) ==
    IF ToLowerCase(Last(url)) \in DOMAIN mimeMap
    THEN mimeMap[ToLowerCase(Last(url))]
    ELSE "application/octet-stream"

PostedRequest == calls[1].body
GivenUrls == Get(Get(Req.arguments).fileUrls)
GivenOptions == Get(Req.arguments).outputOptions
OutputFlags == {"createSpreadsheet", "createSummary", "createVideoClips"}

\* C10: start analysis posts one MediaFile per file URL, its MIME type the table
\* entry of the URL's extension compared case-insensitively and
\* application/octet-stream for an extension outside the table or a URL without
\* one; each create flag is true unless given as false, all true when the
\* options are omitted; the language is "en" when none is given.
C10_MediaFilesAndOptions ==
    (Called("start_storytelling_analysis") /\ Len(calls) = 1) =>
        /\ Len(PostedRequest.files) = Len(GivenUrls)
        /\ \A i \in 1..Len(GivenUrls) :
              /\ PostedRequest.files[i].filepath = GivenUrls[i]
              /\ "mimeType" \in DOMAIN PostedRequest.files[i]
              /\ PostedRequest.files[i].mimeType = JsStr(ExpectedMimeType(GivenUrls[i]))
        /\ \A flag \in OutputFlags :
              PostedRequest.outputOptions[flag] =
                  ~(IsSome(GivenOptions) /\ Get(GivenOptions)[flag] = JsBool(FALSE))
        /\ (IsNone(GivenOptions) \/ Get(GivenOptions).language = JsUndefined)
              => PostedRequest.outputOptions.language = JsStr("en")

-----------------------------------------------------------------------------
(* C11 *)

\* The label the table gives the last run-data entry, else the defaults.
ExpectedStep(e) ==
    IF ~HasRunData(e) THEN "Starting..."
    ELSE IF NodeCount(e) = 0 THEN "Processing..."
    ELSE IF Last(Get(Get(e.data).runData)) \in DOMAIN stepMap
         THEN stepMap[Last(Get(Get(e.data).runData))]
    ELSE "Processing..."

\* C11: the current-step label of a fetched execution record is always a string:
\* the table's label of the last run-data entry, "Starting..." without run data,
\* and "Processing..." for a last entry outside the table or an empty run data;
\* it is reported as such by get_analysis_status.
C11_CurrentStepLabel ==
    GotExecution("get_analysis_status") =>
        /\ jobs[JobKey].currentStep.t = "string"
        /\ jobs[JobKey].currentStep = JsStr(ExpectedStep(Execution))
        /\ Payload.success =>
              /\ "currentStep" \in DOMAIN Payload
              /\ Payload.currentStep = JsStr(ExpectedStep(Execution))

-----------------------------------------------------------------------------
(* C12 *)

\* list_active_jobs was called and the engine answered its query with a list.
GotActiveList ==
    /\ Called("list_active_jobs")
    /\ Len(answers) = 1
    /\ answers[1].ok
    /\ IsSome(answers[1].body)
    /\ IsSome(Get(answers[1].body).data)

ActiveList == Get(Get(answers[1].body).data)

\* The payload lists the engine's executions, one entry each, all processing, and
\* no job that only the local map knows.
ListsEngineSet ==
    /\ Payload.success
    /\ Payload.totalActive = Len(ActiveList)
    /\ Len(Payload.activeJobs) = Len(ActiveList)
    /\ \A i \in 1..Len(ActiveList) :
          /\ Payload.activeJobs[i].status = "processing"
          /\ IsSome(ActiveList[i].id) =>
                /\ "jobId" \in DOMAIN Payload.activeJobs[i]
                /\ Payload.activeJobs[i].jobId = Get(ActiveList[i].id)
          /\ IsNone(ActiveList[i].id) => "jobId" \notin DOMAIN Payload.activeJobs[i]
    /\ \A id \in DOMAIN jobs :
          (\A i \in 1..Len(ActiveList) : ActiveList[i].id # id) =>
              \A i \in 1..Len(Payload.activeJobs) :
                  ~("jobId" \in DOMAIN Payload.activeJobs[i]
                      /\ Some(Payload.activeJobs[i].jobId) = id)

\* C12: a list_active_jobs call, whatever the local job map holds, leaves the map
\* as it was, and when the engine answers its unfinished-executions query the
\* result has exactly one entry per execution the engine returned, in a
\* totalActive equal to that count, every entry with status processing, and no
\* entry for a job only the local map holds.
C12_ListJobsFromEngine ==
    [][Called("list_active_jobs")' =>
          /\ jobs' = jobs
          /\ GotActiveList' => ListsEngineSet']_vars

C12_Witness ==
    /\ GotActiveList
    /\ Some("exec-2") \in DOMAIN jobs
    /\ Len(ActiveList) = 2
    /\ ActiveList[1].id = Some("exec-7")
    /\ ActiveList[2].id = Some("exec-1")
    /\ Payload.totalActive = 2
    /\ Payload.activeJobs[1].jobId = "exec-7"
    /\ Payload.activeJobs[1].status = "processing"

====
